---- MODULE Spec2Model ----
(***************************************************************************)
(* Model of clihelper.Interface (src/clihelper.py): the sub-command        *)
(* dispatch of parse, the recursive pattern matcher scan_pattern and the   *)
(* type predicates of type_check.py.                                       *)
(*                                                                         *)
(* Python strings are sequences of one-character strings, Python lists are *)
(* sequences, and indices are kept 0-based as in the source (At, Slice).   *)
(***************************************************************************)
EXTENDS Integers, Sequences, FiniteSets, TLC

(***************************************************************************)
(* Bounds                                                                  *)
(***************************************************************************)
\* longest argument list handed to parse
MaxArgs == 4
\* number of parse invocations on one Interface
MaxCalls == 2
\* depth of nested scan_pattern calls at which the interpreter raises RecursionError
RecursionLimit == 8

(***************************************************************************)
(* Python string and list primitives                                       *)
(***************************************************************************)
At(s, i) == s[i + 1]

\* s[i:j] for 0 <= i and j <= len(s)
Slice(s, i, j) == SubSeq(s, i + 1, j)

\* s[i:]
SliceFrom(s, i) == SubSeq(s, i + 1, Len(s))

\* x in s
Contains(s, x) == \E i \in 1..Len(s) : s[i] = x

\* s.index(x), 0-based; only used when x in s
IndexOf(s, x) == (CHOOSE i \in 1..Len(s) : s[i] = x /\ \A j \in 1..(i - 1) : s[j] # x) - 1

\* Remove dropping the last occurrence instead of the first
Remove_last(s, x) ==
    LET last == CHOOSE i \in 1..Len(s) : s[i] = x /\ \A j \in (i + 1)..Len(s) : s[j] # x
    IN  SubSeq(s, 1, last - 1) \o SubSeq(s, last + 1, Len(s))

\* s.remove(x): drops the first occurrence; only used when x in s
Remove(s, x) == SubSeq(s, 1, IndexOf(s, x)) \o SubSeq(s, IndexOf(s, x) + 2, Len(s))

\* s.startswith(c) for a one-character c
StartsWith(s, c) == Len(s) > 0 /\ s[1] = c

RECURSIVE split(_, _)
\* s.split(sep) for a one-character sep
split(s, sep) ==
    IF Contains(s, sep)
    THEN LET i == IndexOf(s, sep)
         IN  <<Slice(s, 0, i)>> \o split(SliceFrom(s, i + 1), sep)
    ELSE <<s>>

RECURSIVE join(_, _)
\* sep.join(list)
join(list, sep) ==
    IF Len(list) = 0 THEN <<>>
    ELSE IF Len(list) = 1 THEN list[1]
    ELSE list[1] \o sep \o join(Tail(list), sep)

RECURSIVE lstrip(_)
lstrip(s) == IF StartsWith(s, " ") THEN lstrip(Tail(s)) ELSE s

RECURSIVE rstrip(_)
rstrip(s) == IF Len(s) > 0 /\ s[Len(s)] = " " THEN rstrip(SubSeq(s, 1, Len(s) - 1)) ELSE s

\* s.strip(" ")
strip(s) == rstrip(lstrip(s))

\* [x for x in list if x != ""], the effect of the 'remove all blanks' loop
RemoveBlanks(list) == SelectSeq(list, LAMBDA x : x # <<>>)

(***************************************************************************)
(* type_check.py                                                           *)
(***************************************************************************)
Digits == {"0", "1", "2", "3", "4", "5", "6", "7", "8", "9"}

check_int(value) == \A i \in 1..Len(value) : value[i] \in Digits

check_float(value) ==
    /\ \A i \in 1..Len(value) : value[i] \in Digits \/ value[i] = "."
    /\ Contains(value, ".")

check_hex(value) ==
    \A i \in 1..Len(value) :
        value[i] \in Digits \cup {"A", "B", "C", "D", "E", "F", "a", "b", "c", "d", "e", "f"}

check_oct(value) == \A i \in 1..Len(value) : value[i] \in {"0", "1", "2", "3", "4", "5", "6", "7"}

check_bin(value) == \A i \in 1..Len(value) : value[i] \in {"0", "1"}

T_INT == <<"<", "I", "N", "T", ">">>
T_FLOAT == <<"<", "F", "L", "O", "A", "T", ">">>
T_HEX == <<"<", "H", "E", "X", ">">>
T_OCT == <<"<", "O", "C", "T", ">">>
T_BIN == <<"<", "B", "I", "N", ">">>

\* the keys of type_dict
type_dict_keys == {T_INT, T_FLOAT, T_HEX, T_OCT, T_BIN}

\* type_dict[tag](value)
type_dict(tag, value) ==
    CASE tag = T_INT -> check_int(value)
      [] tag = T_FLOAT -> check_float(value)
      [] tag = T_HEX -> check_hex(value)
      [] tag = T_OCT -> check_oct(value)
      [] tag = T_BIN -> check_bin(value)

(***************************************************************************)
(* Interface: the constructor arguments that stay fixed                    *)
(***************************************************************************)
flag_a == <<"-", "a">>
flag_b == <<"-", "b">>
T_STR == <<"<", "S", "T", "R", ">">>
help_flag == <<"-", "-", "h", "e", "l", "p">>

\* STR script_name
script_name == <<"p">>

\* default value registered for -b
default_b == <<"d">>

\* ITER parameter_information - [flag, description, default_value]
parameter_information ==
    << <<flag_a, <<"A">>, <<>> >>,
       <<flag_b, <<"B">>, default_b>> >>

\* Python values stored in argument_results: True/False or a string
PyBool(b) == [type |-> "bool", bool |-> b, str |-> <<>>]
PyStr(s) == [type |-> "str", bool |-> FALSE, str |-> s]

(***************************************************************************)
(* scan_pattern: splitting a group body into its elements                  *)
(***************************************************************************)
Openers == {"{", "["}

\* {"{": "}", "[": "]"}[c]
Closer(c) == IF c = "{" THEN "}" ELSE "]"

\* if s: parts.append(s)
AppendIf(parts, s) == IF s # <<>> THEN Append(parts, s) ELSE parts

RECURSIVE cycle_open(_, _)
\* while pattern[base_pointer] in (" ", "}", "]"): base_pointer += 1
cycle_open(pattern, base_pointer) ==
    IF At(pattern, base_pointer) \in {" ", "}", "]"}
    THEN cycle_open(pattern, base_pointer + 1)
    ELSE base_pointer

RECURSIVE cycle_space(_, _, _)
\* while pattern[base_pointer] in (" ", "}", "]") and base_pointer < current_pointer
cycle_space(pattern, base_pointer, current_pointer) ==
    IF At(pattern, base_pointer) \in {" ", "}", "]"} /\ base_pointer < current_pointer
    THEN cycle_space(pattern, base_pointer + 1, current_pointer)
    ELSE base_pointer

RECURSIVE cycle_last(_, _, _)
\* while base_pointer <= current_pointer and pattern[base_pointer] in (" ", "}", "]")
cycle_last(pattern, base_pointer, current_pointer) ==
    IF base_pointer <= current_pointer /\ At(pattern, base_pointer) \in {" ", "}", "]"}
    THEN cycle_last(pattern, base_pointer + 1, current_pointer)
    ELSE base_pointer

RECURSIVE get_elements(_, _, _, _, _)
\* the 'get elements' loop and the final append; match_character "" is 'none'
get_elements(pattern, current_pointer, pattern_parts, match_character, base_pointer) ==
    IF current_pointer = Len(pattern)
    THEN AppendIf(pattern_parts,
                  SliceFrom(pattern, cycle_last(pattern, base_pointer, Len(pattern) - 1)))
    ELSE
      LET c == At(pattern, current_pointer) IN
      IF c \in Openers /\ match_character = ""
      THEN get_elements(pattern, current_pointer + 1,
                        AppendIf(pattern_parts,
                                 Slice(pattern, cycle_open(pattern, base_pointer), current_pointer)),
                        Closer(c), current_pointer)
      ELSE IF c = match_character
      THEN get_elements(pattern, current_pointer + 1,
                        AppendIf(pattern_parts, Slice(pattern, base_pointer, current_pointer + 1)),
                        "", current_pointer)
      ELSE IF /\ match_character = ""
              /\ c = " "
              /\ current_pointer # Len(pattern) - 1
              /\ At(pattern, current_pointer + 1) # "<"
      THEN get_elements(pattern, current_pointer + 1,
                        AppendIf(pattern_parts,
                                 Slice(pattern,
                                       cycle_space(pattern, base_pointer, current_pointer),
                                       current_pointer)),
                        match_character, current_pointer)
      ELSE get_elements(pattern, current_pointer + 1, pattern_parts, match_character, base_pointer)

RECURSIVE detect_pipes(_, _, _, _, _)
\* the 'detect pipes' loop, the final append and the removal of blanks
detect_pipes(pattern_parts, current_pointer, base_pointer, to_pipe, pipe_parts) ==
    IF current_pointer = Len(pattern_parts)
    THEN RemoveBlanks(Append(pipe_parts,
             strip(join(<<to_pipe>> \o SliceFrom(pattern_parts, base_pointer), <<" ">>))))
    ELSE
      LET part == At(pattern_parts, current_pointer) IN
      IF Contains(part, "|") /\ part[1] \notin Openers
      THEN LET pipe_split == split(part, "|")
               \* pipe_pointer == 0
               first == strip(join(<<to_pipe>>
                                   \o Slice(pattern_parts, base_pointer, current_pointer)
                                   \o <<pipe_split[1]>>, <<" ">>))
               \* 0 < pipe_pointer < len(pipe_split) - 1, appended when not blank
               middle == RemoveBlanks(SubSeq(pipe_split, 2, Len(pipe_split) - 1))
           IN  detect_pipes(pattern_parts, current_pointer + 1, current_pointer + 1,
                            pipe_split[Len(pipe_split)],
                            Append(pipe_parts, first) \o middle)
      ELSE detect_pipes(pattern_parts, current_pointer + 1, base_pointer, to_pipe, pipe_parts)

\* add inherited wrapping if necessary
Wrap(subpattern, mode) ==
    IF subpattern[1] \notin Openers
    THEN <<mode>> \o subpattern \o <<Closer(mode)>>
    ELSE subpattern

(***************************************************************************)
(* scan_pattern: matching.  self is the record of the Interface fields the *)
(* matcher reads and writes, extended with what the call has done so far:  *)
(*   status     "run", "exit" (exit(1) was called) or "crash" (an          *)
(*              uncaught exception, named in exception)                    *)
(*   stderr     the messages passed to display_error, in order             *)
(*   response   the value returned by the call: None or a list of flags    *)
(*   log        one entry per removal from given_arguments                 *)
(***************************************************************************)
\* unpack_command_path(given_path)
unpack_command_path(given_path) == join(given_path, <<" ">>)

\* display_error(message + subject): one line on standard error, prefixed by the caller address
display_error(self, message, subject) ==
    [self EXCEPT !.stderr =
        Append(@, [caller |-> unpack_command_path(IF self.internal_command_path # <<>>
                                                  THEN self.internal_command_path
                                                  ELSE <<script_name>>),
                   message |-> message, subject |-> subject])]

\* exit(1)
exit1(self) == [self EXCEPT !.status = "exit", !.code = 1]

\* an uncaught exception
raise(self, exception) == [self EXCEPT !.status = "crash", !.exception = exception]

\* return value
return(self, flags) == [self EXCEPT !.response = [none |-> FALSE, flags |-> flags]]

\* falling off the end of the function: return None
return_None(self) == [self EXCEPT !.response = [none |-> TRUE, flags |-> <<>>]]

\* given_arguments := pool, recording the removal
remove_tokens(self, op, part, pool) ==
    [self EXCEPT !.given_arguments = pool,
                 !.log = Append(@, [op |-> op, part |-> part,
                                    before |-> self.given_arguments, after |-> pool])]

\* 1 if response else 0
Truthy(response) == ~response.none /\ response.flags # <<>>

\* match_count counting every response that is not None
match_count_not_none(responses) == Cardinality({i \in 1..Len(responses) : ~responses[i].none})

\* [1 if response else 0 for response in responses].count(1)
match_count(responses) == Cardinality({i \in 1..Len(responses) : Truthy(responses[i])})

RECURSIVE collect_flags(_)
\* for response in responses: for flag in response: return_flags.append(flag)
collect_flags(responses) ==
    IF Len(responses) = 0 THEN <<>>
    ELSE responses[1].flags \o collect_flags(Tail(responses))

\* the 'return all set flags' loop; iterating over None raises TypeError
return_flags(self, responses, mode, add_marker) ==
    IF \E i \in 1..Len(responses) : responses[i].none
    THEN raise(self, "TypeError")
    ELSE IF add_marker /\ mode = "[" /\ collect_flags(responses) = <<>>
    THEN return(self, <<<<"-", "*">>>>)
    ELSE return(self, collect_flags(responses))

\* take_value leaving the value in the pool
take_value_kept(pool, value_index) == pool

\* self.given_arguments[:value_index] + self.given_arguments[value_index + 1:]
take_value(pool, value_index) ==
    Slice(pool, 0, value_index) \o SliceFrom(pool, value_index + 1)

\* missing_argument without the test of the leading "-"
missing_argument_never(append_value) == FALSE

\* 'detect missing argument': append_value.startswith("-")
missing_argument(append_value) == StartsWith(append_value, "-")

\* default_value ignoring the registered default
default_value_false(entry) == PyBool(FALSE)

\* the registered default of an entry of parameter_information, False when it is empty
default_value(entry) == IF entry[3] = <<>> THEN PyBool(FALSE) ELSE PyStr(entry[3])

\* the base case: one flag, one flag with its <TYPE>, or one placeholder
scan_base(self, mode, pattern_parts, depth) ==
    LET flag == pattern_parts[1] IN
    IF Contains(self.given_arguments, flag)
    THEN
      IF Len(pattern_parts) = 2
      THEN LET value_index == IndexOf(self.given_arguments, flag) + 1 IN
           IF value_index >= Len(self.given_arguments)
           THEN exit1(display_error(self, "Missing argument for flag ", flag))
           ELSE
             LET append_value == At(self.given_arguments, value_index)
                 taken == remove_tokens(self, "value", flag,
                                        take_value(self.given_arguments, value_index))
             IN
             IF missing_argument(append_value)
             THEN exit1(display_error(taken, "Missing argument for flag ", flag))
             ELSE IF /\ self.assert_typing
                     /\ pattern_parts[2] \in type_dict_keys
                     /\ ~type_dict(pattern_parts[2], append_value)
             THEN exit1(display_error(taken, "Incorrect type for ", flag))
             ELSE LET removed == remove_tokens(taken, "flag", flag,
                                               Remove(taken.given_arguments, flag))
                  IN  return([removed EXCEPT !.argument_results =
                                  Append(@, <<flag, PyStr(append_value)>>)],
                             <<flag>>)
      ELSE LET removed == remove_tokens(self, "flag", flag, Remove(self.given_arguments, flag))
           IN  return([removed EXCEPT !.argument_results = Append(@, <<flag, PyBool(TRUE)>>)],
                      <<flag>>)
    ELSE IF /\ StartsWith(flag, "<")
            /\ (depth = 1 \/ (depth = 0 /\ Len(pattern_parts) = 1))
    THEN
      IF Len(self.given_arguments) = 0
      THEN return_None(display_error(self, "Missing argument ", flag))
      ELSE LET append_value == self.given_arguments[Len(self.given_arguments)]
               popped == remove_tokens(self, "pop", flag,
                             SubSeq(self.given_arguments, 1, Len(self.given_arguments) - 1))
           IN  IF missing_argument(append_value)
               THEN return_None(display_error(popped, "Missing argument ", flag))
               ELSE return_None(popped)
    ELSE
      IF ~\E i \in 1..Len(parameter_information) : parameter_information[i][1] = flag
      THEN raise(self, "ValueError")
      ELSE LET entry == parameter_information[
                            CHOOSE i \in 1..Len(parameter_information) :
                                /\ parameter_information[i][1] = flag
                                /\ \A j \in 1..(i - 1) : parameter_information[j][1] # flag]
               append_value == default_value(entry)
           IN  return([self EXCEPT !.argument_results = Append(@, <<flag, append_value>>)],
                      IF mode = "[" THEN <<<<"-", "*">>>> ELSE <<>>)

\* all_flags_required leaving every check to the parent when there is one
all_flags_required_by_parent(count, total, parent) == count < total /\ parent = ""

\* 'check for some but not all matches', and 'check for no entries unless parent
\* will handle invalids'
all_flags_required(count, total, parent) ==
    \/ 0 < count /\ count < total
    \/ count = 0 /\ parent = ""

RECURSIVE scan_pattern(_, _, _, _)
RECURSIVE scan_each(_, _, _, _, _, _)

\* for subpattern in subpatterns: responses.append(self.scan_pattern(wrapped, depth + 1, parent))
\* stops at the first call that exits or raises; gives the Interface and the responses
scan_each(self, subpatterns, mode, depth, parent, responses) ==
    IF Len(subpatterns) = 0 \/ self.status # "run"
    THEN [self |-> self, responses |-> responses]
    ELSE LET called == scan_pattern(self, Wrap(subpatterns[1], mode), depth + 1, parent)
         IN  scan_each(called, Tail(subpatterns), mode, depth, parent,
                       Append(responses, called.response))

scan_pattern(self, given_pattern, depth, parent) ==
    LET mode == given_pattern[1]
        pattern == SubSeq(given_pattern, 2, Len(given_pattern) - 1)
        split_parts == split(pattern, " ")
    IN
    IF depth > RecursionLimit
    THEN raise(self, "RecursionError")
    ELSE IF mode \notin Openers
    THEN raise(self, "SyntaxError")
    ELSE IF Len(split_parts) = 2 /\ split_parts[2] = <<>>
    \* pattern_parts[1][0] on an empty string
    THEN raise(self, "IndexError")
    ELSE IF /\ (Len(split_parts) = 1 \/ (Len(split_parts) = 2 /\ split_parts[2][1] = "<"))
            /\ \A i \in 1..Len(split_parts) : ~Contains(split_parts[i], "|")
    THEN scan_base(self, mode, split_parts, depth)
    ELSE
      LET pattern_parts == get_elements(pattern, 0, <<>>, "", 0)
          pipe_parts == detect_pipes(pattern_parts, 0, 0, <<>>, <<>>)
      IN
      IF Len(pipe_parts) > 1
      THEN \* evaluate parts with pipes
        LET done == scan_each(self, pipe_parts, mode, depth, "|", <<>>)
            count == match_count(done.responses)
        IN  IF done.self.status # "run" THEN done.self
            ELSE IF count >= 2
            THEN exit1(display_error(done.self, "Only one part can be filled: ", pattern))
            ELSE IF mode = "{" /\ count # 1
            THEN exit1(display_error(done.self, "There must be exactly one part filled: ", pattern))
            ELSE return_flags(done.self, done.responses, mode, FALSE)
      ELSE IF mode = "{"
      THEN \* evaluate parts without pipes, required mode
        LET done == scan_each(self, pattern_parts, mode, depth, parent, <<>>)
            count == match_count(done.responses)
        IN  IF done.self.status # "run" THEN done.self
            ELSE IF all_flags_required(count, Len(done.responses), parent)
            THEN exit1(display_error(done.self, "All flags are required in ", pattern))
            ELSE return_flags(done.self, done.responses, mode, TRUE)
      ELSE \* evaluate parts without pipes, optional mode
        LET done == scan_each(self, pattern_parts, mode, depth, "[", <<>>)
        IN  IF done.self.status # "run" THEN done.self
            ELSE return_flags(done.self, done.responses, mode, TRUE)

(***************************************************************************)
(* The Interface and the position of a parse call                          *)
(***************************************************************************)
VARIABLES
    pattern_tree,           \* DICT pattern_tree, as a map from node to node content
    internal_command_path,  \* self.internal_command_path
    argument_results,       \* self.argument_results
    argument_scan,          \* self.argument_scan
    given_arguments,        \* self.given_arguments, the token pool
    assert_typing,          \* self.assert_typing
    arguments,              \* parse: the argument list of the current call
    pattern_branch,         \* parse: the node of pattern_tree reached so far
    argument_index,         \* parse: the loop variable of the dispatch loop
    pc,                     \* "idle", "dispatch", "remove", "scan", "check" or "stopped"
    outcome,                \* how the current call ended, and at which step
    stderr,                 \* what the current call passed to display_error
    log,                    \* the removals from given_arguments made by the current call
    remaining,              \* the pool handed to scan_pattern by the current call
    calls,                  \* number of parse calls made on this Interface
    previous,               \* outcome and stderr of the call before the current one
    type_check,             \* a call of a function of type_dict: tag, value, state, result
    tokenizer               \* a run of the element tokenizer: pattern, state, pattern_parts

vars == <<pattern_tree, internal_command_path, argument_results, argument_scan,
          given_arguments, assert_typing, arguments, pattern_branch, argument_index,
          pc, outcome, stderr, log, remaining, calls, previous, type_check, tokenizer>>

cmd_p == <<"p">>
cmd_g == <<"g">>

\* leaf patterns of the pattern trees
leaf_alt == flag_a \o <<"|">> \o flag_b
leaf_opt_alt == <<"[">> \o flag_a \o <<"|">> \o flag_b \o <<"]">>
leaf_str == flag_a \o <<" ">> \o T_STR
leaf_int == flag_a \o <<" ">> \o T_INT
leaf_opts == <<"[">> \o flag_a \o <<"]", " ", "[">> \o flag_b \o <<"]">>
leaf_all == flag_a \o <<" ">> \o flag_b
leaf_pos == T_STR
leaf_int_all == flag_a \o <<" ">> \o T_INT \o <<" ">> \o flag_b
leaf_int_alt == flag_a \o <<" ">> \o T_INT \o <<"|">> \o flag_b
leaf_group_alt == <<"{">> \o flag_a \o <<" ">> \o flag_b \o <<"}", "|">> \o flag_b
leaf_pos_all == T_STR \o <<" ">> \o flag_a
leaf_pos_alt == T_STR \o <<"|">> \o flag_a
leaf_two_types == flag_a \o <<" ">> \o T_STR \o <<" ">> \o T_INT

Leaves == {leaf_alt, leaf_opt_alt, leaf_str, leaf_int, leaf_opts, leaf_all, leaf_pos,
           leaf_int_all, leaf_int_alt, leaf_group_alt, leaf_pos_all, leaf_pos_alt,
           leaf_two_types}

\* a dict node: keys maps each key to the node of its content
Dict(keys) == [type |-> "dict", keys |-> keys, pattern |-> <<>>]
\* a str node: a leaf pattern
Str(pattern) == [type |-> "str", keys |-> <<>>, pattern |-> pattern]

\* {"p": leaf, "g": {"p": leaf}}
Tree(leaf) ==
    [root |-> Dict(cmd_p :> "p" @@ cmd_g :> "g"),
     p |-> Str(leaf),
     g |-> Dict(cmd_p :> "gp"),
     gp |-> Str(leaf)]

Trees == {Tree(leaf) : leaf \in Leaves}

\* the words an argument list is made of
Tokens == {cmd_p, cmd_g, flag_a, flag_b, <<"x">>, <<"5">>, help_flag}

RECURSIVE Lists(_)
\* the lists of at most n tokens
Lists(n) ==
    IF n = 0 THEN {<<>>}
    ELSE Lists(n - 1) \cup {Append(l, t) : l \in {m \in Lists(n - 1) : Len(m) = n - 1}, t \in Tokens}

\* status is "none" while the call runs, then "returned", "exit" or "crash";
\* at is the step of parse at which the call ended
no_outcome == [status |-> "none", code |-> 0, exception |-> "", result |-> <<>>, at |-> ""]

\* is_pattern never recognising a leaf
is_pattern_never(branch) == FALSE

\* type(pattern_branch) == str
is_pattern(branch) == branch.type = "str"

\* no function of type_dict is under study
no_type_check == [tag |-> <<>>, value |-> <<>>, state |-> "none", result |-> FALSE]

\* the tokenizer is not under study
no_tokenizer == [pattern |-> <<>>, state |-> "none", pattern_parts |-> <<>>]

\* the fields set by __init__ and the position before the first parse call
Idle ==
    /\ internal_command_path = <<>>
    /\ argument_results = <<>>
    /\ argument_scan = <<>>
    /\ given_arguments = <<>>
    /\ assert_typing = TRUE
    /\ arguments = <<>>
    /\ pattern_branch = "root"
    /\ argument_index = 0
    /\ pc = "idle"
    /\ outcome = no_outcome
    /\ stderr = <<>>
    /\ log = <<>>
    /\ remaining = <<>>
    /\ calls = 0
    /\ previous = [outcome |-> no_outcome, stderr |-> <<>>]

Init ==
    /\ pattern_tree \in Trees
    /\ Idle
    /\ type_check = no_type_check
    /\ tokenizer = no_tokenizer

\* the Interface as scan_pattern and display_error see it
Self ==
    [internal_command_path |-> internal_command_path,
     given_arguments |-> given_arguments,
     argument_results |-> argument_results,
     assert_typing |-> assert_typing,
     status |-> "run", code |-> 0, exception |-> "",
     stderr |-> stderr,
     response |-> [none |-> FALSE, flags |-> <<>>],
     log |-> log]

\* the walk through pattern_tree that display_help starts with:
\* "ok", or the exception raised by target_patterns[command]
RECURSIVE help_walk(_, _, _)
help_walk(tree, node, path) ==
    IF Len(path) = 0 THEN "ok"
    ELSE IF tree[node].type = "str" THEN "TypeError"
    ELSE IF path[1] \notin DOMAIN tree[node].keys THEN "KeyError"
    ELSE help_walk(tree, tree[node].keys[path[1]], Tail(path))

\* self.display_help(); exit(0)
display_help_exit ==
    LET walked == help_walk(pattern_tree, "root",
                            IF internal_command_path # <<>> THEN internal_command_path
                            ELSE <<script_name>>)
    IN  /\ pc' = "stopped"
        /\ outcome' = IF walked = "ok"
                      THEN [no_outcome EXCEPT !.status = "exit", !.at = pc]
                      ELSE [no_outcome EXCEPT !.status = "crash", !.exception = walked,
                                              !.at = pc]

(***************************************************************************)
(* parse                                                                   *)
(***************************************************************************)
\* the call and the statements before the dispatch loop
parse(args, typing) ==
    /\ pc = "idle"
    /\ calls < MaxCalls
    /\ calls' = calls + 1
    /\ previous' = [outcome |-> outcome, stderr |-> stderr]
    /\ arguments' = args
    /\ pattern_branch' = "root"
    /\ assert_typing' = typing
    /\ given_arguments' = args
    /\ argument_index' = 0
    /\ pc' = IF Len(args) = 0 THEN "remove" ELSE "dispatch"
    /\ outcome' = no_outcome
    /\ stderr' = <<>>
    /\ log' = <<>>
    /\ remaining' = <<>>
    /\ UNCHANGED <<type_check, tokenizer>>
    /\ UNCHANGED <<pattern_tree, internal_command_path, argument_results, argument_scan>>

\* one iteration of 'for argument_index in range(len(self.given_arguments))'
dispatch ==
    /\ pc = "dispatch"
    /\ LET argument == At(given_arguments, argument_index)
           branch == pattern_tree[pattern_branch]
       IN
       IF argument = help_flag
       THEN /\ display_help_exit
            /\ UNCHANGED <<pattern_branch, internal_command_path, argument_index, stderr>>
       ELSE IF argument \notin DOMAIN branch.keys
       THEN /\ stderr' = display_error(Self, "Unknown command: ", argument).stderr
            /\ outcome' = [no_outcome EXCEPT !.status = "exit", !.code = 1, !.at = pc]
            /\ pc' = "stopped"
            /\ UNCHANGED <<pattern_branch, internal_command_path, argument_index>>
       ELSE /\ pattern_branch' = branch.keys[argument]
            /\ internal_command_path' = Append(internal_command_path, argument)
            /\ IF is_pattern(pattern_tree[branch.keys[argument]])
               THEN \* break
                    /\ pc' = "remove"
                    /\ argument_index' = argument_index
               ELSE IF argument_index + 1 < Len(given_arguments)
               THEN /\ pc' = "dispatch"
                    /\ argument_index' = argument_index + 1
               ELSE \* the loop runs out of arguments
                    /\ pc' = "remove"
                    /\ argument_index' = argument_index
            /\ UNCHANGED <<outcome, stderr>>
    /\ UNCHANGED <<type_check, tokenizer>>
    /\ UNCHANGED <<pattern_tree, argument_results, argument_scan, given_arguments,
                   assert_typing, arguments, log, remaining, calls, previous>>

\* remove_commands dropping every occurrence of each command instead of the first
remove_commands_all(pool, path) ==
    [pool |-> SelectSeq(pool, LAMBDA token : ~Contains(path, token)),
     raised |-> \E i \in 1..Len(path) : ~Contains(pool, path[i])]

RECURSIVE remove_commands(_, _)
\* for command in self.internal_command_path: self.given_arguments.remove(command)
\* gives the pool reached and whether list.remove raised ValueError
remove_commands(pool, path) ==
    IF Len(path) = 0 THEN [pool |-> pool, raised |-> FALSE]
    ELSE IF ~Contains(pool, path[1]) THEN [pool |-> pool, raised |-> TRUE]
    ELSE remove_commands(Remove(pool, path[1]), Tail(path))

\* 'remove command path from given arguments' and the assertion
remove_command_path ==
    /\ pc = "remove"
    /\ LET removed == remove_commands(given_arguments, internal_command_path) IN
       /\ given_arguments' = removed.pool
       /\ IF removed.raised
          THEN /\ outcome' = [no_outcome EXCEPT !.status = "crash", !.exception = "ValueError",
                                                !.at = pc]
               /\ pc' = "stopped"
          ELSE IF ~is_pattern(pattern_tree[pattern_branch])
          THEN /\ outcome' = [no_outcome EXCEPT !.status = "crash",
                                                !.exception = "AssertionError", !.at = pc]
               /\ pc' = "stopped"
          ELSE /\ outcome' = outcome
               /\ pc' = "scan"
    /\ UNCHANGED <<type_check, tokenizer>>
    /\ UNCHANGED <<pattern_tree, internal_command_path, argument_results, argument_scan,
                   assert_typing, arguments, pattern_branch, argument_index, stderr, log,
                   remaining, calls, previous>>

\* 'reset results and load arguments to scan' and the call of scan_pattern
scan ==
    /\ pc = "scan"
    /\ argument_scan' = SliceFrom(given_arguments, argument_index + 1)
    /\ remaining' = given_arguments
    /\ LET scanned == scan_pattern([Self EXCEPT !.argument_results = <<>>],
                                   <<"{">> \o pattern_tree[pattern_branch].pattern \o <<"}">>,
                                   0, "")
       IN
       /\ given_arguments' = scanned.given_arguments
       /\ argument_results' = scanned.argument_results
       /\ stderr' = scanned.stderr
       /\ log' = scanned.log
       /\ IF scanned.status = "run"
          THEN /\ pc' = "check"
               /\ outcome' = outcome
          ELSE /\ pc' = "stopped"
               /\ outcome' = [no_outcome EXCEPT !.status = scanned.status,
                                                !.code = scanned.code,
                                                !.exception = scanned.exception,
                                                !.at = pc]
    /\ UNCHANGED <<type_check, tokenizer>>
    /\ UNCHANGED <<pattern_tree, internal_command_path, assert_typing, arguments,
                   pattern_branch, argument_index, calls, previous>>

\* {pair[0]: pair[1] for pair in self.argument_results}: the last pair of a key wins
findings(results) ==
    [key \in {results[i][1] : i \in 1..Len(results)} |->
        results[CHOOSE i \in 1..Len(results) :
                    /\ results[i][1] = key
                    /\ \A j \in (i + 1)..Len(results) : results[j][1] # key][2]]

\* 'alert the user to any unknown flags' and 'return the findings'
check_unknown ==
    /\ pc = "check"
    /\ IF given_arguments # <<>> /\ Contains(given_arguments, help_flag)
       THEN /\ display_help_exit
            /\ stderr' = stderr
       ELSE /\ stderr' = IF given_arguments # <<>>
                         THEN display_error(Self, "Unrecognised flag ", given_arguments[1]).stderr
                         ELSE stderr
            /\ outcome' = [no_outcome EXCEPT !.status = "returned",
                                             !.result = findings(argument_results),
                                             !.at = pc]
            /\ pc' = "idle"
    /\ UNCHANGED <<type_check, tokenizer>>
    /\ UNCHANGED <<pattern_tree, internal_command_path, argument_results, argument_scan,
                   given_arguments, assert_typing, arguments, pattern_branch, argument_index,
                   log, remaining, calls, previous>>

\* the first call takes any argument list; a later call repeats the arguments of the first
Next ==
    \/ calls = 0 /\ \E args \in Lists(MaxArgs), typing \in BOOLEAN : parse(args, typing)
    \/ calls > 0 /\ parse(arguments, assert_typing)
    \/ dispatch
    \/ remove_command_path
    \/ scan
    \/ check_unknown

Spec == Init /\ [][Next]_vars

(***************************************************************************)
(* Vocabulary of the properties                                            *)
(***************************************************************************)
\* the leaf pattern selected by dispatch
Leaf == pattern_tree[pattern_branch].pattern

\* scan_pattern has been called by the current parse and has ended
ScanDone == pc = "check" \/ outcome.at \in {"scan", "check"}

\* the current parse has ended after scan_pattern was called
ParseEnded == outcome.at \in {"scan", "check"}

\* the flag occurs among the tokens handed to the matcher
Supplied(flag) == Contains(remaining, flag)

\* the token at the index after the first occurrence of the flag
ValueAfter(flag) == remaining[IndexOf(remaining, flag) + 2]

\* the flag occurs and the token after it exists and does not start with "-"
HasValue(flag) ==
    /\ Supplied(flag)
    /\ IndexOf(remaining, flag) + 2 <= Len(remaining)
    /\ ~StartsWith(ValueAfter(flag), "-")

\* the value after the flag passes the check made for the type tag
Conforms(flag, tag) ==
    (assert_typing /\ tag \in type_dict_keys) => type_dict(tag, ValueAfter(flag))

\* some message passed to display_error has this text
Said(message) == \E i \in 1..Len(stderr) : stderr[i].message = message

\* some message passed to display_error names this flag or token
Named(subject) == \E i \in 1..Len(stderr) : stderr[i].subject = subject

\* the matcher ended the parse with exit(1) right after displaying this message
FatalWith(message) ==
    /\ outcome.status = "exit"
    /\ outcome.code = 1
    /\ outcome.at = "scan"
    /\ stderr # <<>>
    /\ stderr[Len(stderr)].message = message

only_one == "Only one part can be filled: "
exactly_one == "There must be exactly one part filled: "

\* the default registered for a flag, as parse returns it
RegisteredDefault(flag) ==
    LET entry == parameter_information[CHOOSE i \in 1..Len(parameter_information) :
                                           parameter_information[i][1] = flag]
    IN  IF entry[3] = <<>> THEN PyBool(FALSE) ELSE PyStr(entry[3])

\* the leaf patterns that are a required alternation A|B, A being -a or -a <INT>
RequiredAlternations == {leaf_alt, leaf_int_alt}

\* branch A of a required alternation is satisfied: its flag is supplied, with a
\* conforming value when it takes one
SatisfiedA ==
    IF Leaf = leaf_alt THEN Supplied(flag_a)
    ELSE HasValue(flag_a) /\ Conforms(flag_a, T_INT)

\* branch B of a required alternation is satisfied
SatisfiedB == Supplied(flag_b)

(***************************************************************************)
(* C1                                                                      *)
(***************************************************************************)
\* C1: for a required alternation A|B, tokens that satisfy both branches end the
\* match with the 'only one part can be filled' error, tokens in which neither
\* branch's flag occurs end it with the 'must be exactly one part filled' error,
\* and tokens that satisfy one branch and do not supply the other produce no
\* alternation-cardinality error.
C1_RequiredAlternationCardinality ==
    (ScanDone /\ Leaf \in RequiredAlternations) =>
        /\ (SatisfiedA /\ SatisfiedB) => FatalWith(only_one)
        /\ (~Supplied(flag_a) /\ ~Supplied(flag_b)) => FatalWith(exactly_one)
        /\ ((SatisfiedA /\ ~Supplied(flag_b)) \/ (SatisfiedB /\ ~Supplied(flag_a)))
              => (~Said(only_one) /\ ~Said(exactly_one))

\* both -a (with its value) and -b are supplied to -a <INT>|-b and the match is rejected
C1_Witness ==
    /\ Leaf = leaf_int_alt
    /\ SatisfiedA /\ SatisfiedB
    /\ FatalWith(only_one)

(***************************************************************************)
(* C2                                                                      *)
(***************************************************************************)
\* C2: for the optional alternation [-a|-b] the 'only one part can be filled'
\* error is produced only when both branches are supplied by the tokens; with no
\* branch supplied no cardinality error is produced.
C2_OptionalAlternationToleratesNone ==
    (ScanDone /\ Leaf = leaf_opt_alt) =>
        /\ Said(only_one) => (Supplied(flag_a) /\ Supplied(flag_b))
        /\ ~Said(exactly_one)

(***************************************************************************)
(* C3                                                                      *)
(***************************************************************************)
\* C3: when the leaf pattern is one required value-bearing flag and no token is
\* left after dispatch, parse reports an error naming the flag and does not
\* return a result.
C3_AbsentRequiredFlagReported ==
    (ParseEnded /\ Leaf \in {leaf_str, leaf_int} /\ remaining = <<>>) =>
        /\ Named(flag_a)
        /\ outcome.status # "returned"

(***************************************************************************)
(* C4                                                                      *)
(***************************************************************************)
\* the leaf patterns made of optional flags only
OptionalOnly == {leaf_opts, leaf_opt_alt}

\* C4: for a leaf pattern of optional flags only, an empty remaining token list
\* is parsed without any error and the result maps every flag of the pattern to
\* its registered default.
C4_OptionalOnlyDefaults ==
    (ParseEnded /\ Leaf \in OptionalOnly /\ remaining = <<>>) =>
        /\ outcome.status = "returned"
        /\ stderr = <<>>
        /\ outcome.result = (flag_a :> RegisteredDefault(flag_a)
                             @@ flag_b :> RegisteredDefault(flag_b))

(***************************************************************************)
(* C5                                                                      *)
(***************************************************************************)
\* the leaf patterns whose first element is the value-bearing flag -a <T>
ValueLeaves == {leaf_str, leaf_int, leaf_int_all, leaf_int_alt}

\* the <T> that follows -a in the leaf pattern
TagOfA == IF Leaf = leaf_str THEN T_STR ELSE T_INT

\* the pool without the first occurrence of the flag and the token after it
WithoutFlagAndValue(flag) ==
    SubSeq(remaining, 1, IndexOf(remaining, flag))
    \o SubSeq(remaining, IndexOf(remaining, flag) + 3, Len(remaining))

\* matching -a <T> has recorded the token after -a as its value, has removed
\* that token and then the flag and nothing else, and the matcher has reported no
\* error about -a (a second -a left in the pool is reported by parse as unknown)
ValueBound ==
    /\ Len(log) >= 2
    /\ log[1] = [op |-> "value", part |-> flag_a, before |-> remaining,
                 after |-> take_value(remaining, IndexOf(remaining, flag_a) + 1)]
    /\ log[2].op = "flag" /\ log[2].part = flag_a
    /\ log[2].after = WithoutFlagAndValue(flag_a)
    /\ \A i \in 3..Len(log) : log[i].part # flag_a
    /\ argument_results # <<>>
    /\ argument_results[1] = <<flag_a, PyStr(ValueAfter(flag_a))>>
    /\ \A i \in 1..Len(stderr) :
          stderr[i].subject = flag_a => stderr[i].message = "Unrecognised flag "
    /\ outcome.status = "returned" => outcome.result[flag_a] = PyStr(ValueAfter(flag_a))
    /\ (Leaf = leaf_str /\ Len(remaining) = 2) =>
          /\ given_arguments = <<>>
          /\ stderr = <<>>
          /\ outcome.status = "returned" =>
                outcome.result = (flag_a :> PyStr(ValueAfter(flag_a)))

\* C5 as claimed: for a value-bearing flag F <T>, when F occurs in the remaining
\* tokens and the next token exists and does not start with "-", matching
\* records that token as the value of F, removes exactly the two tokens and
\* produces no error.
C5_ValueFlagBindsNextToken ==
    (ScanDone /\ Leaf \in ValueLeaves /\ HasValue(flag_a)) => ValueBound

\* C5 as amended: the same, provided the token passes the check registered for
\* <T> when type checking is on.
C5_ValueFlagBindsConformingToken ==
    (ScanDone /\ Leaf \in ValueLeaves /\ HasValue(flag_a) /\ Conforms(flag_a, TagOfA))
        => ValueBound

\* -a <INT> is matched against [-a, 5] with type checking on and parse returns
C5_Witness ==
    /\ Leaf = leaf_int
    /\ assert_typing
    /\ remaining = <<flag_a, <<"5">>>>
    /\ outcome.status = "returned"
    /\ outcome.result = (flag_a :> PyStr(<<"5">>))
    /\ given_arguments = <<>>

(***************************************************************************)
(* C6                                                                      *)
(***************************************************************************)
\* exactly one branch of the required alternation is satisfied and the other
\* branch's flag does not occur
OnlyA == SatisfiedA /\ ~Supplied(flag_b)
OnlyB == SatisfiedB /\ ~Supplied(flag_a)

\* C6 as claimed: when a required alternation is satisfied by exactly one branch,
\* no key of the unsatisfied branch appears in the returned result.
C6_OnlySatisfiedBranchKeys ==
    (outcome.status = "returned" /\ Leaf \in RequiredAlternations) =>
        /\ OnlyA => flag_b \notin DOMAIN outcome.result
        /\ OnlyB => flag_a \notin DOMAIN outcome.result

\* C6 as amended: the result binds the flag of the satisfied branch to what the
\* tokens supplied (True, or the value token) and binds the flag of the
\* unsatisfied branch to its registered default (False when that is empty).
C6_UnsatisfiedBranchDefaulted ==
    (outcome.status = "returned" /\ Leaf \in RequiredAlternations) =>
        /\ DOMAIN outcome.result = {flag_a, flag_b}
        /\ OnlyA => /\ outcome.result[flag_a] = IF Leaf = leaf_alt THEN PyBool(TRUE)
                                                ELSE PyStr(ValueAfter(flag_a))
                    /\ outcome.result[flag_b] = RegisteredDefault(flag_b)
        /\ OnlyB => /\ outcome.result[flag_b] = PyBool(TRUE)
                    /\ outcome.result[flag_a] = RegisteredDefault(flag_a)
        /\ OnlyA \/ OnlyB

\* -a|-b is matched against [-a] and the result holds the default of -b
C6_Witness ==
    /\ Leaf = leaf_alt
    /\ remaining = <<flag_a>>
    /\ outcome.status = "returned"
    /\ outcome.result[flag_b] = PyStr(default_b)

(***************************************************************************)
(* C7                                                                      *)
(***************************************************************************)
\* C7: a second parse on the same Interface with the same arguments ends as the
\* first did: same returned result or error outcome, same messages.
C7_ParseIdempotent ==
    (calls >= 2 /\ outcome.status # "none") =>
        /\ outcome = previous.outcome
        /\ stderr = previous.stderr

(***************************************************************************)
(* C8                                                                      *)
(***************************************************************************)
missing_argument_message == "Missing argument for flag "
incorrect_type_message == "Incorrect type for "
all_required_message == "All flags are required in "
unrecognised_message == "Unrecognised flag "

\* the input gives -a a value that is not an <INT> while type checking is on
TypeMismatchTriggered ==
    /\ Leaf \in {leaf_int, leaf_int_all}
    /\ HasValue(flag_a)
    /\ ~Conforms(flag_a, T_INT)

\* the input leaves out the required flag -b of -a <INT> -b
MissingRequiredTriggered == Leaf = leaf_int_all /\ ~Supplied(flag_b)

\* the token after the typed flag -a is absent or starts with "-"
MissingArgumentTriggered ==
    /\ Leaf \in {leaf_int, leaf_int_all}
    /\ Supplied(flag_a)
    /\ ~HasValue(flag_a)

\* the scenario of C8: a typed flag whose value slot is empty or holds a word
\* starting with "-" yields missing-argument and no type mismatch
MissingArgumentBeforeType ==
    (ParseEnded /\ MissingArgumentTriggered) =>
        /\ FatalWith(missing_argument_message)
        /\ stderr[Len(stderr)].subject = flag_a
        /\ ~Said(incorrect_type_message)

RECURSIVE NodeAfter(_, _)
\* the node of pattern_tree reached from node by the commands of path, "" when
\* a command is not a key of the level it is looked up in
NodeAfter(node, path) ==
    IF Len(path) = 0 THEN node
    ELSE IF pattern_tree[node].type # "dict" \/ path[1] \notin DOMAIN pattern_tree[node].keys
    THEN ""
    ELSE NodeAfter(pattern_tree[node].keys[path[1]], Tail(path))

\* the first k arguments, and the arguments after them
Prefix(k) == SubSeq(arguments, 1, k)
Suffix(k) == SubSeq(arguments, k + 1, Len(arguments))

\* C9: on a fresh Interface, when dispatch has reached a leaf the command path is
\* the prefix of the argument list made of keys of the successive levels, it ends
\* at the first leaf, and the pool handed to the matcher is the rest of the
\* argument list, same tokens in the same order.
C9_DispatchSplitsArguments ==
    /\ (calls = 1 /\ pc = "scan") =>
          LET k == Len(internal_command_path) IN
          /\ 1 <= k /\ k <= Len(arguments)
          /\ internal_command_path = Prefix(k)
          /\ given_arguments = Suffix(k)
          /\ NodeAfter("root", Prefix(k)) = pattern_branch
          /\ pattern_tree[pattern_branch].type = "str"
          /\ \A j \in 0..(k - 1) : pattern_tree[NodeAfter("root", Prefix(j))].type = "dict"
    /\ (calls = 1 /\ ScanDone) => remaining = Suffix(Len(internal_command_path))

\* dispatch has consumed [g, p] and the command word p occurs again in the pool
C9_Witness ==
    /\ calls = 1
    /\ pc = "scan"
    /\ internal_command_path = <<cmd_g, cmd_p>>
    /\ given_arguments = <<flag_a, cmd_p>>

(***************************************************************************)
(* C10                                                                     *)
(***************************************************************************)
RECURSIVE FirstNonKey(_, _)
\* the 1-based index of the first argument, from index i on and starting at node,
\* that is not a key of the level reached; 0 when a leaf is reached or the
\* arguments run out first
FirstNonKey(node, i) ==
    IF i > Len(arguments) \/ pattern_tree[node].type = "str" THEN 0
    ELSE IF arguments[i] \notin DOMAIN pattern_tree[node].keys THEN i
    ELSE FirstNonKey(pattern_tree[node].keys[arguments[i]], i + 1)

unknown_command_message == "Unknown command: "

\* the dispatch loop of the current parse is over
DispatchEnded == pc \in {"remove", "scan", "check"} \/ outcome.at # ""

\* the current parse ended in the dispatch loop with the 'unknown command' error
UnknownCommandFailure ==
    /\ outcome.at = "dispatch"
    /\ outcome.status = "exit"
    /\ outcome.code = 1
    /\ Said(unknown_command_message)

\* what holds at an 'unknown command' failure: one message, naming the first
\* argument that is not a key, and no token removed or matched
AtFirstNonKey ==
    /\ FirstNonKey("root", 1) > 0
    /\ stderr = <<[caller |-> stderr[1].caller, message |-> unknown_command_message,
                   subject |-> arguments[FirstNonKey("root", 1)]]>>
    /\ given_arguments = arguments
    /\ log = <<>>
    /\ remaining = <<>>

\* C10 as claimed: dispatch fails with 'unknown command' at the first argument
\* that is not a key of the current level while a sub-command is expected, and
\* only there; no token has been matched at that point.
C10_UnknownCommandAtFirstNonKey ==
    DispatchEnded =>
        /\ FirstNonKey("root", 1) > 0 => UnknownCommandFailure
        /\ UnknownCommandFailure => AtFirstNonKey

\* C10 as amended: the same for a first non-key argument other than --help; when
\* that argument is --help, help is displayed instead and no 'unknown command'
\* error is raised.
C10_UnknownCommandUnlessHelp ==
    DispatchEnded =>
        /\ (FirstNonKey("root", 1) > 0 /\ arguments[FirstNonKey("root", 1)] # help_flag)
              => UnknownCommandFailure
        /\ (FirstNonKey("root", 1) > 0 /\ arguments[FirstNonKey("root", 1)] = help_flag)
              => (outcome.at = "dispatch" /\ stderr = <<>> /\ given_arguments = arguments)
        /\ UnknownCommandFailure => AtFirstNonKey

\* [g, -a, ...] fails at its second argument, after the command g was consumed
C10_Witness ==
    /\ UnknownCommandFailure
    /\ internal_command_path = <<cmd_g>>
    /\ stderr[1].subject = flag_a
    /\ Len(arguments) >= 3

(***************************************************************************)
(* C11                                                                     *)
(***************************************************************************)
\* the token is the subject of an 'Unrecognised flag' message
ReportedUnknown(token) ==
    \E i \in 1..Len(stderr) :
        /\ stderr[i].message = unrecognised_message
        /\ stderr[i].subject = token

\* C11: when parse returns, it has displayed no 'Unrecognised flag' message only
\* if the pool is empty, and every token left in the pool after matching is the
\* subject of an 'Unrecognised flag' message.
C11_EveryLeftoverReported ==
    outcome.status = "returned" =>
        /\ ~Said(unrecognised_message) => given_arguments = <<>>
        /\ \A i \in 1..Len(given_arguments) : ReportedUnknown(given_arguments[i])

(***************************************************************************)
(* The functions of type_dict, called on their own                         *)
(***************************************************************************)
\* longest value handed to a function of type_dict
MaxValueLen == 5

\* the characters a value is made of: a digit, the point, and a letter
Characters == {"1", ".", "x"}

RECURSIVE Values(_)
\* the strings of at most n characters
Values(n) ==
    IF n = 0 THEN {<<>>}
    ELSE Values(n - 1) \cup {Append(v, c) : v \in {w \in Values(n - 1) : Len(w) = n - 1},
                                            c \in Characters}

\* a function of type_dict has been called with a value
TypeCheckInit ==
    /\ pattern_tree = Tree(leaf_alt)
    /\ Idle
    /\ tokenizer = no_tokenizer
    /\ type_check \in {[tag |-> tag, value |-> value, state |-> "called", result |-> FALSE] :
                          tag \in type_dict_keys, value \in Values(MaxValueLen)}

\* the called function returns
check_type ==
    /\ type_check.state = "called"
    /\ type_check' = [type_check EXCEPT !.state = "returned",
                                        !.result = type_dict(type_check.tag, type_check.value)]
    /\ UNCHANGED <<pattern_tree, internal_command_path, argument_results, argument_scan,
                   given_arguments, assert_typing, arguments, pattern_branch, argument_index,
                   pc, outcome, stderr, log, remaining, calls, previous, tokenizer>>

TypeCheckNext == check_type

TypeCheckSpec == TypeCheckInit /\ [][TypeCheckNext]_vars

(***************************************************************************)
(* C12                                                                     *)
(***************************************************************************)
\* number of occurrences of the character in the value
Occurrences(value, character) == Cardinality({i \in 1..Len(value) : value[i] = character})

\* C12: check_float returns True exactly for the values in which every character
\* is a decimal digit or the point and the point occurs exactly once.
C12_FloatHasExactlyOnePoint ==
    (type_check.state = "returned" /\ type_check.tag = T_FLOAT) =>
        (type_check.result <=>
            /\ \A i \in 1..Len(type_check.value) : type_check.value[i] \in Digits \cup {"."}
            /\ Occurrences(type_check.value, ".") = 1)

(***************************************************************************)
(* The element tokenizer of scan_pattern, run on its own                   *)
(***************************************************************************)
\* deepest nesting of groups in the body handed to the tokenizer
MaxNesting == 2

\* the elements that are not groups: a flag, and a flag with its type tag
Atoms == {flag_a, flag_b \o <<" ">> \o T_STR}

RECURSIVE Elements(_)
\* the elements nested at most n deep: an atom, or a group around an element,
\* or around an element and an atom in either order
Elements(n) ==
    IF n = 0 THEN Atoms
    ELSE LET inner == Elements(n - 1)
             bodies == inner
                       \cup {e \o <<" ">> \o a : e \in inner, a \in Atoms}
                       \cup {a \o <<" ">> \o e : e \in inner, a \in Atoms}
         IN  Atoms \cup {<<c>> \o body \o <<Closer(c)>> : c \in Openers, body \in bodies}

\* the bodies of a group: an element, or an element and an atom in either order
Bodies(n) ==
    Elements(n)
    \cup {e \o <<" ">> \o a : e \in Elements(n), a \in Atoms}
    \cup {a \o <<" ">> \o e : e \in Elements(n), a \in Atoms}

\* the tokenizer has been started on the body of a group
TokenizerInit ==
    /\ pattern_tree = Tree(leaf_alt)
    /\ Idle
    /\ type_check = no_type_check
    /\ tokenizer \in {[pattern |-> body, state |-> "called", pattern_parts |-> <<>>] :
                         body \in Bodies(MaxNesting)}

\* the 'get elements' loop runs to its end
tokenize ==
    /\ tokenizer.state = "called"
    /\ tokenizer' = [tokenizer EXCEPT
                        !.state = "returned",
                        !.pattern_parts = get_elements(tokenizer.pattern, 0, <<>>, "", 0)]
    /\ UNCHANGED <<pattern_tree, internal_command_path, argument_results, argument_scan,
                   given_arguments, assert_typing, arguments, pattern_branch, argument_index,
                   pc, outcome, stderr, log, remaining, calls, previous, type_check>>

TokenizerNext == tokenize

TokenizerSpec == TokenizerInit /\ [][TokenizerNext]_vars

(***************************************************************************)
(* C13                                                                     *)
(***************************************************************************)
RECURSIVE Closes(_, _)
\* reading the text with these closers still awaited, innermost first, every
\* bracket closes the one opened last and none is left open
Closes(text, awaited) ==
    IF text = <<>> THEN awaited = <<>>
    ELSE IF Head(text) \in Openers THEN Closes(Tail(text), <<Closer(Head(text))>> \o awaited)
    ELSE IF Head(text) \in {"}", "]"}
    THEN awaited # <<>> /\ Head(awaited) = Head(text) /\ Closes(Tail(text), Tail(awaited))
    ELSE Closes(Tail(text), awaited)

\* the text is a balanced pattern
Balanced(text) == Closes(text, <<>>)

\* C13: the elements the tokenizer cuts a group body into, joined in order by
\* single spaces, are the body again; every element is a balanced pattern, also
\* when groups of one bracket kind are nested; and no element is a type tag cut
\* off from its flag.
C13_TokenizerRoundTrip ==
    tokenizer.state = "returned" =>
        /\ join(tokenizer.pattern_parts, <<" ">>) = tokenizer.pattern
        /\ \A i \in 1..Len(tokenizer.pattern_parts) :
              /\ Balanced(tokenizer.pattern_parts[i])
              /\ tokenizer.pattern_parts[i][1] # "<"

(***************************************************************************)
(* C14                                                                     *)
(***************************************************************************)
\* -a is supplied to a pattern that starts with -a <T>, and the token at the
\* index after it is absent or starts with "-"
ValueMissing ==
    /\ ScanDone
    /\ Leaf \in ValueLeaves
    /\ Supplied(flag_a)
    /\ ~HasValue(flag_a)

\* C14: when the flag of a value-bearing flag is supplied and the token after it
\* is absent or starts with "-", the match ends with the 'Missing argument for
\* flag' error naming the flag, and nothing has been taken from the pool when
\* the error is displayed: the token after the flag, if any, is still in it.
C14_MissingArgumentConsumesNothing ==
    ValueMissing =>
        /\ FatalWith(missing_argument_message)
        /\ stderr[Len(stderr)].subject = flag_a
        /\ given_arguments = remaining

(***************************************************************************)
(* C15                                                                     *)
(***************************************************************************)
\* the leaf patterns holding the required group -a -b without alternation: as the
\* whole pattern (no parent), and as the first branch of an alternation (parent "|")
RequiredGroups == {leaf_all, leaf_group_alt}

\* the text of the required group, as the error message names it
required_group == flag_a \o <<" ">> \o flag_b

\* how many children of the required group are present in the tokens
PresentChildren == Cardinality({flag \in {flag_a, flag_b} : Supplied(flag)})

\* C15: for the required group -a -b, when one of the two flags is supplied the
\* match ends with exactly one 'All flags are required' error naming the group,
\* with or without a parent; when none is supplied and the group is a branch of
\* an alternation the error is left out and the alternation reports its own
\* cardinality; when both are supplied no 'All flags are required' error is
\* produced.
C15_RequiredGroupAllOrNothing ==
    (ScanDone /\ Leaf \in RequiredGroups) =>
        /\ PresentChildren = 1 =>
              /\ FatalWith(all_required_message)
              /\ Len(stderr) = 1
              /\ stderr[1].subject = required_group
        /\ (PresentChildren = 0 /\ Leaf = leaf_group_alt) =>
              /\ ~Said(all_required_message)
              /\ FatalWith(exactly_one)
        /\ PresentChildren = 2 => ~Said(all_required_message)

\* no flag is supplied to {-a -b}|-b: the group stays silent, the alternation reports
C15_Witness ==
    /\ Leaf = leaf_group_alt
    /\ ScanDone
    /\ PresentChildren = 0
    /\ ~Said(all_required_message)
    /\ FatalWith(exactly_one)

(***************************************************************************)
(* C16                                                                     *)
(***************************************************************************)
\* the leaf patterns whose first element, at depth 1, is the positional <STR>,
\* next to the flag -a in a required group and in a required alternation
PositionalGroups == {leaf_pos_all, leaf_pos_alt}

missing_positional_message == "Missing argument "

\* the last token handed to the matcher
LastToken == remaining[Len(remaining)]

\* the positional takes a token that does not start with "-"
PositionalBound ==
    /\ remaining # <<>>
    /\ ~StartsWith(LastToken, "-")

\* the pool without its last token
WithoutLast == SubSeq(remaining, 1, Len(remaining) - 1)

\* C16: a positional <STR> at depth 1 removes the last token of the pool as its
\* first and only removal, and reports 'Missing argument <STR>' when the pool is
\* empty or that token starts with "-"; the group around a bound positional is
\* then evaluated as any group: the match does not end in a TypeError, and in
\* the required group <STR> -a with -a supplied as well every child counts as
\* present, so no 'All flags are required' error is produced.
C16_PositionalBindsLastToken ==
    (ScanDone /\ Leaf \in PositionalGroups) =>
        /\ remaining # <<>> =>
              /\ log # <<>>
              /\ log[1].op = "pop"
              /\ log[1].before = remaining
              /\ log[1].after = WithoutLast
              /\ \A i \in 2..Len(log) : log[i].op # "pop"
        /\ ~PositionalBound <=>
              \E i \in 1..Len(stderr) :
                  /\ stderr[i].message = missing_positional_message
                  /\ stderr[i].subject = T_STR
        /\ PositionalBound =>
              /\ outcome.exception # "TypeError"
              /\ (Leaf = leaf_pos_all /\ Contains(WithoutLast, flag_a))
                     => ~Said(all_required_message)

(***************************************************************************)
(* C17                                                                     *)
(***************************************************************************)
\* C17: for every leaf pattern and every token list the calls of scan_pattern
\* come to an end by themselves: each call is made on a shorter pattern, so the
\* match never runs into the recursion limit.
C17_ScanPatternTerminates ==
    ScanDone => outcome.exception # "RecursionError"

(***************************************************************************)
(* C18                                                                     *)
(***************************************************************************)
\* the pool without the token at index k (counted from 1)
WithoutIndex(pool, k) == SubSeq(pool, 1, k - 1) \o SubSeq(pool, k + 1, Len(pool))

\* the text occurs in the leaf pattern
InPattern(text) ==
    \E i \in 0..(Len(Leaf) - Len(text)) : SubSeq(Leaf, i + 1, i + Len(text)) = text

\* the removal takes one token out of the pool: the first occurrence of the flag of
\* the element, the token at the index after it, or the last token for a positional
AllowedRemoval(removal) ==
    /\ InPattern(removal.part)
    /\ CASE removal.op = "flag" ->
              /\ Contains(removal.before, removal.part)
              /\ removal.after = WithoutIndex(removal.before, IndexOf(removal.before, removal.part) + 1)
         [] removal.op = "value" ->
              /\ Contains(removal.before, removal.part)
              /\ IndexOf(removal.before, removal.part) + 2 <= Len(removal.before)
              /\ removal.after = WithoutIndex(removal.before, IndexOf(removal.before, removal.part) + 2)
         [] removal.op = "pop" ->
              /\ StartsWith(removal.part, "<")
              /\ removal.before # <<>>
              /\ removal.after = WithoutIndex(removal.before, Len(removal.before))

\* C18: from the end of dispatch to the end of matching the pool changes only by
\* the recorded removals, which follow one another from the pool handed to the
\* matcher to the pool it leaves; each removal takes exactly one token out and
\* keeps the others in order, and the token is the flag of the pattern element
\* under evaluation, the token at the index after that flag, or the last token
\* of the pool for a positional.
C18_PoolOnlyShrinks ==
    ScanDone =>
        /\ log = <<>> => given_arguments = remaining
        /\ log # <<>> => (log[1].before = remaining /\ log[Len(log)].after = given_arguments)
        /\ \A i \in 1..(Len(log) - 1) : log[i + 1].before = log[i].after
        /\ \A i \in 1..Len(log) : AllowedRemoval(log[i])
        /\ Len(given_arguments) = Len(remaining) - Len(log)

\* -a <INT> -b takes the value, the flag -a and the flag -b out of the pool
C18_Witness ==
    /\ ScanDone
    /\ Leaf = leaf_int_all
    /\ Len(log) = 3
    /\ log[1].op = "value" /\ log[2].op = "flag" /\ log[3].op = "flag"
    /\ Len(given_arguments) = Len(remaining) - 3

(***************************************************************************)
(* C19                                                                     *)
(***************************************************************************)
\* the dispatch loop of the current call has ended without an exit
DispatchLeft ==
    \/ pc \in {"remove", "scan", "check"}
    \/ outcome.at \in {"remove", "scan", "check"}

\* C19: whenever the dispatch loop has ended, for every pattern tree and token
\* list, the branch selected is a leaf pattern string: the assertion
\* type(pattern_branch) == str does not fail.
C19_BranchIsLeafAfterDispatch ==
    DispatchLeft =>
        /\ is_pattern(pattern_tree[pattern_branch])
        /\ outcome.exception # "AssertionError"

====
